---- MODULE Spec2Model ----
(***************************************************************************)
(* A model of concept_map (src/src/main.rs): the pipeline                  *)
(*   add* -> build (validate) -> solve                                     *)
(* of main().  Strings are sequences of one-character strings, so that     *)
(* str::trim and str::split are computed and not assumed.  Weights (f64)   *)
(* are small naturals, on which f64 addition is exact.                     *)
(***************************************************************************)
EXTENDS Integers, Sequences, FiniteSets, TLC

\* ------------------------------------------------------------------ bounds
\* Number of records read from the input.
MaxRecords == 3
\* Frames of solve_dependency_transitive_closure the thread's stack holds.
\* An acyclic recursion over at most MaxRecords concepts never needs more
\* than MaxRecords frames, so only an endless recursion reaches the limit.
StackLimit == MaxRecords + 1

\* ----------------------------------------------------------------- strings
A == <<"a">>
B == <<"b">>
C == <<"c">>
PaddedA == <<" ", "a">>

\* Option<T>: None and Some(x)
None == <<>>
Some(x) == <<x>>

\* The `concept` column of the input.
RawNames == {A, B, C, PaddedA}

\* The `dependencies` column of the input:
\*   "", "a", "b", "c", "b; c;b", "d; ;"
RawDependencies ==
    { <<>>,
      <<"a">>,
      <<"b">>,
      <<"c">>,
      <<"b", ";", " ", "c", ";", "b">>,
      <<"d", ";", " ", ";">> }

\* The `category` column of the input.  Nothing before the rendering reads a
\* concept's category, so the pipeline is explored with the column left out;
\* GraphRecord below varies it.
RawCategories == { None }

\* The three weight columns (lecture, lab, hw) of the input.
RawWeights == { <<Some(1), Some(2), None>>, <<Some(2), None, Some(1)>> }

\* struct ConceptRecord, as deserialized by the csv reader.
ConceptRecord ==
    { [concept |-> n, dependencies |-> d, category |-> c,
       lecture_weight |-> w[1], lab_weight |-> w[2], hw_weight |-> w[3]] :
      n \in RawNames, d \in RawDependencies, c \in RawCategories, w \in RawWeights }

RECURSIVE TrimStart(_)
TrimStart(s) ==
    IF s = <<>> THEN s
    ELSE IF Head(s) = " " THEN TrimStart(Tail(s)) ELSE s

RECURSIVE TrimEnd(_)
TrimEnd(s) ==
    IF s = <<>> THEN s
    ELSE IF s[Len(s)] = " " THEN TrimEnd(SubSeq(s, 1, Len(s) - 1)) ELSE s

\* str::trim
Trim(s) == TrimEnd(TrimStart(s))

\* str::split(";"): the tokens between separators, empty ones included.
RECURSIVE Split(_)
Split(s) ==
    IF \A k \in 1..Len(s) : s[k] # ";" THEN <<s>>
    ELSE LET k == CHOOSE k \in 1..Len(s) :
                      s[k] = ";" /\ \A j \in 1..(k - 1) : s[j] # ";"
         IN  <<SubSeq(s, 1, k - 1)>> \o Split(SubSeq(s, k + 1, Len(s)))

\* Option::unwrap_or
UnwrapOr(o, default) == IF o = None THEN default ELSE o[1]

\* The elements of a sequence.
Range(s) == { s[k] : k \in 1..Len(s) }

RECURSIVE SumSeq(_)
SumSeq(s) == IF s = <<>> THEN 0 ELSE Head(s) + SumSeq(Tail(s))

\* ------------------------------------------------------------------- state
VARIABLES
    pc,                \* position of main(): "ingest", "peel", "report",
                       \* "built", "closure", "done", "overflow";
                       \* under SpecGraph: "graph", "done", "panic"
    records,           \* the records read so far, in input order
    origin,            \* origin[k]: the record number concepts[k] was built from
    \* struct ConceptMap
    nconcepts,
    concepts,
    lookup,
    dependency_order,
    errors,
    total_weights,
    \* locals of ConceptMapBuilder::validate
    errs,
    pending,
    shrunk,
    i,                 \* position of `for c in &m.concepts` in the current pass
    passes,            \* completed passes of `loop`
    \* locals of ConceptMap::solve
    all_deps,
    weights,
    ci,                \* position of the first `for c in &self.concepts`
    stack,             \* frames of solve_dependency_transitive_closure
    \* locals of ConceptMap::graph
    colors,
    color_idx,
    gi                 \* position of the first `for c in &self.concepts` of graph

mapVars == <<nconcepts, concepts, lookup, dependency_order, errors, total_weights>>
validateVars == <<errs, pending, shrunk, i, passes>>
solveVars == <<all_deps, weights, ci, stack>>
graphVars == <<colors, color_idx, gi>>
vars == <<pc, records, origin, mapVars, validateVars, solveVars, graphVars>>

\* HashMap::new(): the map with no key.
EmptyMap == [k \in {} |-> 0]

\* HashMap::insert
Insert(m, k, v) == [x \in (DOMAIN m) \cup {k} |-> IF x = k THEN v ELSE m[x]]

\* ----------------------------------------------------------------- Concept
\* Modality::new(weight, None)
Modality_new(weight) == [weight |-> weight, earliest_start |-> 0]

\* Concept::new
Concept_new(r, line) ==
    [ concept      |-> Trim(r.concept),
      category     |-> Trim(UnwrapOr(r.category, <<>>)),
      line         |-> line,
      offset       |-> 0,
      dependencies |-> <<>>,
      modes        |-> << Modality_new(UnwrapOr(r.lecture_weight, 0)),
                          Modality_new(UnwrapOr(r.lab_weight, 0)),
                          Modality_new(UnwrapOr(r.hw_weight, 0)) >> ]

\* ------------------------------------------------------ ConceptMapBuilder
\* ConceptMap::new
Init ==
    /\ pc = "ingest"
    /\ records = <<>>
    /\ origin = <<>>
    /\ nconcepts = 0
    /\ concepts = <<>>
    /\ lookup = EmptyMap
    /\ dependency_order = <<>>
    /\ errors = <<>>
    /\ total_weights = <<0, 0, 0>>
    /\ errs = <<>>
    /\ pending = {}
    /\ shrunk = FALSE
    /\ i = 1
    /\ passes = 0
    /\ all_deps = EmptyMap
    /\ weights = EmptyMap
    /\ ci = 1
    /\ stack = <<>>
    /\ colors = EmptyMap
    /\ color_idx = 0
    /\ gi = 1

\* add: `if let Some(&redundant) = map.lookup.get(&c.concept)`
IsRedundant(lk, r) == r.concept \in DOMAIN lk

\* add: the redundant-concept diagnostic
RedundantError(r, n, cs, redundant) ==
    <<"redundant", r.concept, n, cs[redundant + 1].line>>

\* add: the dependency list built from the `dependencies` column
ParseDependencies(field) ==
    LET tokens == SelectSeq(Split(field), LAMBDA d : d # <<>>)
    IN  [k \in 1..Len(tokens) |-> Trim(tokens[k])]

\* add: the concept pushed for record number n when cs holds the concepts
NewConcept(r, n, cs) ==
    [Concept_new(r, n + 1) EXCEPT
        !.dependencies = ParseDependencies(r.dependencies),
        !.offset = Len(cs)]

\* add with the redundant record replacing the stored concept (last occurrence
\* wins): the mutation the frame property of a rejected add must detect.
add_LastWins(cs, lk, es, r, n) ==
    IF IsRedundant(lk, r)
    THEN [ concepts |-> [cs EXCEPT ![lk[r.concept] + 1] =
                            [NewConcept(r, n, cs) EXCEPT !.offset = lk[r.concept]]],
           lookup   |-> lk,
           errors   |-> Append(es, RedundantError(r, n, cs, lk[r.concept])) ]
    ELSE LET concept == NewConcept(r, n, cs)
         IN  [ concepts |-> Append(cs, concept),
               lookup   |-> Insert(lk, concept.concept, Len(cs)),
               errors   |-> es ]

\* The body of ConceptMapBuilder::add on record r, the n-th of the input:
\* the concept storage, the lookup and the diagnostics it leaves.
add(cs, lk, es, r, n) ==
    IF IsRedundant(lk, r)
    THEN [ concepts |-> cs,
           lookup   |-> lk,
           errors   |-> Append(es, RedundantError(r, n, cs, lk[r.concept])) ]
    ELSE LET concept == NewConcept(r, n, cs)
         IN  [ concepts |-> Append(cs, concept),
               lookup   |-> Insert(lk, concept.concept, Len(cs)),
               errors   |-> es ]

\* ConceptMapBuilder::add, called by main for each record of the input
Add(r) ==
    /\ pc = "ingest"
    /\ nconcepts < MaxRecords
    /\ nconcepts' = nconcepts + 1
    /\ records' = Append(records, r)
    /\ LET after == add(concepts, lookup, errors, r, nconcepts')
       IN  /\ concepts' = after.concepts
           /\ lookup' = after.lookup
           /\ errors' = after.errors
           /\ origin' = IF Len(after.concepts) > Len(concepts)
                        THEN Append(origin, nconcepts') ELSE origin
    /\ UNCHANGED <<graphVars, pc, dependency_order, total_weights, validateVars, solveVars>>

\* validate: `if m.lookup.get(d).is_none()`
IsDangling(d, lk) == d \notin DOMAIN lk

\* Resolve that keeps every name (the `else` forgotten): the mutation the
\* reference-integrity property must detect.
Resolve_KeepAll(c, lk) == c.dependencies

\* Resolve that also drops the repetitions of a resolved name (ds kept as a set).
Resolve_Dedup(c, lk) ==
    LET ds == c.dependencies
        keep == { p \in 1..Len(ds) :
                    /\ ~IsDangling(ds[p], lk)
                    /\ \A q \in 1..(p - 1) : ds[q] # ds[p] }
        Nth(S, n) == CHOOSE p \in S : Cardinality({ q \in S : q < p }) = n - 1
    IN  [n \in 1..Cardinality(keep) |-> ds[Nth(keep, n)]]

\* validate: the list `ds` that replaces c.dependencies
Resolve(c, lk) == SelectSeq(c.dependencies, LAMBDA d : ~IsDangling(d, lk))

\* DanglingErrors that stops at the first dangling name of a concept: the
\* mutation the one-bullet-per-issue property must detect.
DanglingErrors_FirstOnly(c, lk) ==
    LET ds == SelectSeq(c.dependencies, LAMBDA d : IsDangling(d, lk))
    IN  IF ds = <<>> THEN <<>> ELSE << <<"dangling", ds[1], c.concept, c.line>> >>

\* validate: the dangling-dependency diagnostics of one concept, in order
DanglingErrors(c, lk) ==
    LET ds == SelectSeq(c.dependencies, LAMBDA d : IsDangling(d, lk))
    IN  [k \in 1..Len(ds) |-> <<"dangling", ds[k], c.concept, c.line>>]

RECURSIVE Flatten(_)
Flatten(ss) == IF ss = <<>> THEN <<>> ELSE Head(ss) \o Flatten(Tail(ss))

\* validate, first loop and the initialisation of `pending`;
\* build() calls validate once main has added every record.
ValidateResolve ==
    /\ pc = "ingest"
    /\ concepts' = [k \in 1..Len(concepts) |->
                      [concepts[k] EXCEPT !.dependencies = Resolve(concepts[k], lookup)]]
    /\ errs' = Flatten([k \in 1..Len(concepts) |-> DanglingErrors(concepts[k], lookup)])
    /\ pending' = { concepts[k].concept : k \in 1..Len(concepts) }
    /\ shrunk' = FALSE
    /\ i' = 1
    /\ pc' = "peel"
    /\ UNCHANGED <<graphVars, records, origin, nconcepts, lookup, dependency_order, errors,
                   total_weights, passes, solveVars>>

\* validate: `on_frontier` after the loop over c.dependencies
OnFrontier(c, pend) == \A k \in 1..Len(c.dependencies) : c.dependencies[k] \notin pend

\* PeelExamine with the push outside the `if on_frontier`: every pending
\* concept examined is appended to dependency_order, stuck or not.
PeelExamine_PushStuck ==
    /\ pc = "peel"
    /\ i <= Len(concepts)
    /\ LET c == concepts[i]
       IN  IF c.concept \in pending
           THEN /\ dependency_order' = Append(dependency_order, c.concept)
                /\ IF OnFrontier(c, pending)
                   THEN pending' = pending \ {c.concept} /\ shrunk' = TRUE
                   ELSE UNCHANGED <<pending, shrunk>>
           ELSE UNCHANGED <<dependency_order, pending, shrunk>>
    /\ i' = i + 1
    /\ UNCHANGED <<graphVars, pc, records, origin, nconcepts, concepts, lookup, errors,
                   total_weights, errs, passes, solveVars>>

\* validate: one iteration of `for c in &m.concepts` inside `loop`
PeelExamine ==
    /\ pc = "peel"
    /\ i <= Len(concepts)
    /\ LET c == concepts[i]
       IN  IF c.concept \in pending /\ OnFrontier(c, pending)
           THEN /\ dependency_order' = Append(dependency_order, c.concept)
                /\ pending' = pending \ {c.concept}
                /\ shrunk' = TRUE
           ELSE UNCHANGED <<dependency_order, pending, shrunk>>
    /\ i' = i + 1
    /\ UNCHANGED <<graphVars, pc, records, origin, nconcepts, concepts, lookup, errors,
                   total_weights, errs, passes, solveVars>>

\* PeelPassEnd that leaves the loop only when pending is empty (`!shrunk`
\* not tested): a pass that removed nothing is followed by another pass.
PeelPassEnd_IgnoreShrunk ==
    /\ pc = "peel"
    /\ i > Len(concepts)
    /\ passes' = passes + 1
    /\ IF Cardinality(pending) = 0
       THEN pc' = "report" /\ UNCHANGED <<shrunk, i>>
       ELSE pc' = "peel" /\ shrunk' = FALSE /\ i' = 1
    /\ UNCHANGED <<graphVars, records, origin, mapVars, errs, pending, solveVars>>

\* validate: `if !shrunk || pending.len() == 0 { break; }`
PeelPassEnd ==
    /\ pc = "peel"
    /\ i > Len(concepts)
    /\ passes' = passes + 1
    /\ IF ~shrunk \/ Cardinality(pending) = 0
       THEN pc' = "report" /\ UNCHANGED <<shrunk, i>>
       ELSE pc' = "peel" /\ shrunk' = FALSE /\ i' = 1
    /\ UNCHANGED <<graphVars, records, origin, mapVars, errs, pending, solveVars>>

\* validate: the circular-dependency diagnostic
CircularError(pend) == <<"circular", Cardinality(pend), pend>>

\* validate: the diagnostics appended after the loop
CycleReport(pend) == IF Cardinality(pend) > 0 THEN <<CircularError(pend)>> ELSE <<>>

\* validate: `if pending.len() > 0 {...}` and `m.errors.push_str(&mut errs)`
ValidateReport ==
    /\ pc = "report"
    /\ errs' = errs \o CycleReport(pending)
    /\ errors' = errors \o errs'
    /\ pc' = "built"
    /\ UNCHANGED <<graphVars, records, origin, nconcepts, concepts, lookup, dependency_order,
                   total_weights, pending, shrunk, i, passes, solveVars>>

\* ConceptMap::errs
Errs == IF errors = <<>> THEN None ELSE Some(errors)

\* ---------------------------------------------------------------- ConceptMap
\* ConceptMap::dependency_to_concept
dependency_to_concept(cs, lk, n) == cs[lk[n] + 1]

\* solve_total_weights that reads modes[0] for every mode: the mutation the
\* aggregation property must detect.
solve_total_weights_PrimaryOnly(cs) ==
    [m \in 1..3 |-> SumSeq([k \in 1..Len(cs) |-> cs[k].modes[1].weight])]

\* ConceptMap::solve_total_weights
solve_total_weights(cs) ==
    [m \in 1..3 |-> SumSeq([k \in 1..Len(cs) |-> cs[k].modes[m].weight])]

\* ConceptMap::solve up to the first loop; main calls solve whatever errs() returned.
SolveStart ==
    /\ pc = "built"
    /\ total_weights' = solve_total_weights(concepts)
    /\ all_deps' = EmptyMap
    /\ weights' = EmptyMap
    /\ ci' = 1
    /\ stack' = <<>>
    /\ pc' = "closure"
    /\ UNCHANGED <<graphVars, records, origin, nconcepts, concepts, lookup, dependency_order,
                   errors, validateVars>>

\* Memoized that never finds an entry (base case #1 missing): every call
\* traverses the dependencies again.
Memoized_Never(memo, n) == FALSE

\* solve_dependency_transitive_closure, base case #1
Memoized(memo, n) == n \in DOMAIN memo

\* solve_dependency_transitive_closure: `ds`
DirectDependencies(n) == dependency_to_concept(concepts, lookup, n).dependencies

\* solve_dependency_transitive_closure, base case #2
NoDependencies(n) == Len(DirectDependencies(n)) = 0

\* solve_dependency_transitive_closure: the frame of a call that reaches the
\* recursive case, `all` initialised from ds
Frame(n) ==
    [ n |-> n, ds |-> DirectDependencies(n), k |-> 1,
      all |-> Range(DirectDependencies(n)) ]

\* solve_dependency_transitive_closure: `all = all.union(tc).cloned().collect()`
UnionClosure(all, tc) == all \cup tc

\* solve: `weights.insert(c.concept.clone(), c.modes[0].weight)`, which follows
\* the call for concepts[ci], and the step of the loop
AfterConcept ==
    /\ weights' = Insert(weights, concepts[ci].concept, concepts[ci].modes[1].weight)
    /\ ci' = ci + 1

\* solve: one iteration of the first `for c in &self.concepts`, up to the point
\* where the call for c.concept returns or reaches its recursive case
SolveConcept ==
    /\ pc = "closure"
    /\ stack = <<>>
    /\ ci <= Len(concepts)
    /\ LET n == concepts[ci].concept
       IN  IF Memoized(all_deps, n)
           THEN AfterConcept /\ UNCHANGED <<all_deps, stack>>
           ELSE IF NoDependencies(n)
           THEN /\ all_deps' = Insert(all_deps, n, {})
                /\ AfterConcept
                /\ UNCHANGED stack
           ELSE /\ stack' = <<Frame(n)>>
                /\ UNCHANGED <<all_deps, weights, ci>>
    /\ UNCHANGED <<graphVars, pc, records, origin, mapVars, validateVars>>

\* The frame on top of the stack, and the stack with that frame replaced.
Top == stack[Len(stack)]
WithTop(f) == [stack EXCEPT ![Len(stack)] = f]

\* solve_dependency_transitive_closure: one iteration of `for d in ds` whose
\* call returns from a base case, or the entry into the call when it recurses
ClosureVisit ==
    /\ pc = "closure"
    /\ stack # <<>>
    /\ Top.k <= Len(Top.ds)
    /\ LET d == Top.ds[Top.k]
       IN  IF Memoized(all_deps, d)
           THEN /\ stack' = WithTop([Top EXCEPT !.all = UnionClosure(@, all_deps[d]),
                                                !.k = @ + 1])
                /\ UNCHANGED all_deps
           ELSE IF NoDependencies(d)
           THEN /\ all_deps' = Insert(all_deps, d, {})
                /\ stack' = WithTop([Top EXCEPT !.all = UnionClosure(@, {}),
                                                !.k = @ + 1])
           ELSE /\ Len(stack) < StackLimit
                /\ stack' = Append(stack, Frame(d))
                /\ UNCHANGED all_deps
    /\ UNCHANGED <<graphVars, pc, records, origin, mapVars, validateVars, weights, ci>>

\* The recursion needs a frame the thread's stack has no room for: the
\* process is killed (stack overflow).
StackOverflow ==
    /\ pc = "closure"
    /\ stack # <<>>
    /\ Top.k <= Len(Top.ds)
    /\ ~Memoized(all_deps, Top.ds[Top.k])
    /\ ~NoDependencies(Top.ds[Top.k])
    /\ Len(stack) >= StackLimit
    /\ pc' = "overflow"
    /\ UNCHANGED <<graphVars, records, origin, mapVars, validateVars, solveVars>>

\* solve_dependency_transitive_closure: `dep_closure.insert(n.to_string(), all)`
\* and the return to the caller, which unions the closure just inserted
ClosureReturn ==
    /\ pc = "closure"
    /\ stack # <<>>
    /\ Top.k > Len(Top.ds)
    /\ all_deps' = Insert(all_deps, Top.n, Top.all)
    /\ IF Len(stack) = 1
       THEN stack' = <<>> /\ AfterConcept
       ELSE LET caller == stack[Len(stack) - 1]
            IN  /\ stack' = Append(SubSeq(stack, 1, Len(stack) - 2),
                                   [caller EXCEPT
                                      !.all = UnionClosure(@, all_deps'[caller.ds[caller.k]]),
                                      !.k = @ + 1])
                /\ UNCHANGED <<weights, ci>>
    /\ UNCHANGED <<graphVars, pc, records, origin, mapVars, validateVars>>

RECURSIVE SumOver(_, _)
\* `.map(|d| weights.get(d).unwrap()).fold(0.0, |p, n| p + n)` over a set
SumOver(set, w) ==
    IF set = {} THEN 0
    ELSE LET d == CHOOSE d \in set : TRUE
         IN  w[d] + SumOver(set \ {d}, w)

\* solve: the value stored in c.modes[0].range.earliest_start
EarliestStart(c, memo, w) == SumOver(memo[c.concept], w)

\* solve: the second `for c in &mut self.concepts`.  The rendering that follows
\* (graph) only reads the map and is modelled by SpecGraph below; graph_name
\* is passed through unchanged and is not part of the state.
SolveFinish ==
    /\ pc = "closure"
    /\ stack = <<>>
    /\ ci > Len(concepts)
    /\ concepts' = [k \in 1..Len(concepts) |->
                      [concepts[k] EXCEPT !.modes[1].earliest_start =
                                             EarliestStart(concepts[k], all_deps, weights)]]
    /\ pc' = "done"
    /\ UNCHANGED <<graphVars, records, origin, nconcepts, lookup, dependency_order, errors,
                   total_weights, validateVars, solveVars>>

\* main
Next ==
    \/ \E r \in ConceptRecord : Add(r)
    \/ ValidateResolve
    \/ PeelExamine
    \/ PeelPassEnd
    \/ ValidateReport
    \/ SolveStart
    \/ SolveConcept
    \/ ClosureVisit
    \/ StackOverflow
    \/ ClosureReturn
    \/ SolveFinish

Spec == Init /\ [][Next]_vars

\* ------------------------------------------------------- ConceptMap::graph
\* Spec ends where solve calls graph: with the category column left out there
\* is one category and graph only reads the map.  SpecGraph starts at that
\* call, from the maps the pipeline builds out of up to MaxGraphConcepts
\* records without dependencies whose categories vary.

\* graph: `colormap`
colormap ==
    << "cadetblue1", "chocolate1", "darkgoldenrod1", "darkorchid1", "deeppink",
       "dodgerblue2", "firebrick1", "gray38", "green3", "navy",
       "orchid", "teal", "violetred", "yellow1", "tomato1" >>

\* The palette test one colour early.
PaletteFull_OneEarly(idx) == idx = Len(colormap) - 1

\* graph: `assert_ne!(color_idx, colormap.len())` fails
PaletteFull(idx) == idx = Len(colormap)

\* graph: one iteration of the first `for c in &self.concepts`
GraphColor ==
    /\ pc = "graph"
    /\ gi <= Len(concepts)
    /\ LET c == concepts[gi]
       IN  IF c.category \notin DOMAIN colors
           THEN /\ ~PaletteFull(color_idx)
                /\ colors' = Insert(colors, c.category, colormap[color_idx + 1])
                /\ color_idx' = color_idx + 1
           ELSE UNCHANGED <<colors, color_idx>>
    /\ gi' = gi + 1
    /\ UNCHANGED <<pc, records, origin, mapVars, validateVars, solveVars>>

\* graph: the assertion fails and the process panics
GraphPanic ==
    /\ pc = "graph"
    /\ gi <= Len(concepts)
    /\ concepts[gi].category \notin DOMAIN colors
    /\ PaletteFull(color_idx)
    /\ pc' = "panic"
    /\ UNCHANGED <<records, origin, mapVars, validateVars, solveVars, graphVars>>

\* graph: the nodes, the summary, the legend and the edges are written; every
\* `colors.get(&c.category)` finds the entry the first loop inserted.
GraphEmit ==
    /\ pc = "graph"
    /\ gi > Len(concepts)
    /\ \A k \in 1..Len(concepts) : concepts[k].category \in DOMAIN colors
    /\ pc' = "done"
    /\ UNCHANGED <<records, origin, mapVars, validateVars, solveVars, graphVars>>

\* Number of records of the inputs of SpecGraph.
MaxGraphConcepts == 17

\* The `concept` column of the k-th record of such an input.
GraphName(k) == <<"n", ToString(k)>>

\* How the `category` column is spelled.
CategoryStyles == { "plain", "padded", "uncategorized" }

\* The `category` column of the k-th record when m categories are used in
\* turn: spelled plainly; or with a blank before or after it; or with the
\* first category absent in record 1 and blank in the later records.
GraphCategory(style, k, m) ==
    LET c == ((k - 1) % m) + 1
    IN  CASE style = "plain" -> Some(<<ToString(c)>>)
          [] style = "padded" ->
                IF k % 2 = 1 THEN Some(<<" ", ToString(c)>>)
                             ELSE Some(<<ToString(c), " ">>)
          [] style = "uncategorized" ->
                IF c # 1 THEN Some(<<ToString(c)>>)
                ELSE IF k = 1 THEN None ELSE Some(<<" ">>)

\* The input of n records that uses m categories in turn.
GraphInput(style, n, m) ==
    [k \in 1..n |->
        [concept |-> GraphName(k), dependencies |-> <<>>,
         category |-> GraphCategory(style, k, m),
         lecture_weight |-> Some(1), lab_weight |-> None, hw_weight |-> None]]

RECURSIVE AddAll(_, _, _)
\* main: add called on the records rs[k], rs[k+1], ... in turn
AddAll(rs, k, st) ==
    IF k > Len(rs) THEN st
    ELSE AddAll(rs, k + 1, add(st.concepts, st.lookup, st.errors, rs[k], k))

\* The state in which solve calls graph, after main has added the records of
\* one such input and build and the loops of solve have run: no concept has
\* a dependency, so validate frees every concept in its first pass and every
\* closure is empty.
GraphInit ==
    \E style \in CategoryStyles, n \in 0..MaxGraphConcepts :
      \E m \in 1..(IF n = 0 THEN 1 ELSE n) :
        LET rs == GraphInput(style, n, m)
            st == AddAll(rs, 1, [concepts |-> <<>>, lookup |-> EmptyMap, errors |-> <<>>])
            names == { st.concepts[k].concept : k \in 1..Len(st.concepts) }
        IN  /\ pc = "graph"
            /\ records = rs
            /\ origin = [k \in 1..n |-> k]
            /\ nconcepts = n
            /\ concepts = st.concepts
            /\ lookup = st.lookup
            /\ dependency_order = [k \in 1..Len(st.concepts) |-> st.concepts[k].concept]
            /\ errors = st.errors
            /\ total_weights = solve_total_weights(st.concepts)
            /\ errs = <<>>
            /\ pending = {}
            /\ shrunk = (n > 0)
            /\ i = Len(st.concepts) + 1
            /\ passes = 1
            /\ all_deps = [x \in names |-> {}]
            /\ weights = [x \in names |-> 1]
            /\ ci = Len(st.concepts) + 1
            /\ stack = <<>>
            /\ colors = EmptyMap
            /\ color_idx = 0
            /\ gi = 1

\* ConceptMap::graph
NextGraph ==
    \/ GraphColor
    \/ GraphPanic
    \/ GraphEmit

SpecGraph == GraphInit /\ [][NextGraph]_vars

\* ===================================================================== claims
\* Vocabulary of the claims.

\* validate has returned.
Validated == pc \in {"built", "closure", "done", "overflow"}

\* The first loop of validate (dependency resolution) has run.
Resolved == pc # "ingest"

\* The names of the stored concepts.
ConceptNames == { concepts[k].concept : k \in 1..Len(concepts) }

\* The positions (1-based) of the stored concepts named n.
Stored(n) == { k \in 1..Len(concepts) : concepts[k].concept = n }

\* The record numbers whose name is n once trimmed.
Occurrences(n) == { k \in 1..Len(records) : Trim(records[k].concept) = n }

\* The least element of a non-empty set of numbers.
Min(S) == CHOOSE x \in S : \A y \in S : x <= y

\* The diagnostics of one kind, in the order they were appended.
Diagnostics(es, kind) == SelectSeq(es, LAMBDA e : e[1] = kind)

\* The concepts (positions) concept j names as dependencies.
Succ(j) == { k \in 1..Len(concepts) :
               \E p \in 1..Len(concepts[j].dependencies) :
                  concepts[j].dependencies[p] = concepts[k].concept }

RECURSIVE Closed(_)
Closed(S) ==
    LET next == S \cup UNION { Succ(j) : j \in S }
    IN  IF next = S THEN S ELSE Closed(next)

\* The concepts reachable from concept j along one or more dependency edges.
Reach(j) == Closed(Succ(j))

\* The dependency relation has a directed cycle.
HasCycle == \E j \in 1..Len(concepts) : j \in Reach(j)

\* The places of name n in dependency_order.
Places(n) == { p \in 1..Len(dependency_order) : dependency_order[p] = n }

\* No two stored concepts have the same name.
DistinctNames ==
    \A j, k \in 1..Len(concepts) : j # k => concepts[j].concept # concepts[k].concept

\* --------------------------------------------------------------------- C1
\* C1: after any sequence of add calls, each name that occurs in the records
\* (compared after trimming) is the name of exactly one stored concept, that
\* concept was built from the first record with the name, the lookup maps the
\* name to its position, and every later record with the name has a
\* redundant-concept diagnostic.
C1_FirstOccurrenceWins ==
    \A n \in { Trim(records[k].concept) : k \in 1..Len(records) } :
        /\ Cardinality(Stored(n)) = 1
        /\ \A k \in Stored(n) :
              /\ origin[k] = Min(Occurrences(n))
              /\ n \in DOMAIN lookup
              /\ lookup[n] = k - 1
        /\ \A q \in Occurrences(n) \ {Min(Occurrences(n))} :
              \E p \in 1..Len(errors) : errors[p][1] = "redundant" /\ errors[p][3] = q

\* --------------------------------------------------------------------- C2
\* C2: after validate no dependency name dangles: every name in every
\* concept's dependencies is a key of the lookup, and the position the lookup
\* gives is inside the concept storage (dependency_to_concept does not fail).
C2_NoDanglingDependency ==
    Resolved =>
        \A k \in 1..Len(concepts) :
            \A p \in 1..Len(concepts[k].dependencies) :
                LET d == concepts[k].dependencies[p]
                IN  /\ d \in DOMAIN lookup
                    /\ lookup[d] + 1 \in 1..Len(concepts)
                    /\ dependency_to_concept(concepts, lookup, d).concept = d

\* C2 witness: validate dropped a dangling name and kept a resolved one.
C2_Witness ==
    /\ Validated
    /\ Diagnostics(errors, "dangling") # <<>>
    /\ \E k \in 1..Len(concepts) : concepts[k].dependencies # <<>>

\* --------------------------------------------------------------------- C3
\* C3: when validate succeeds (nothing left pending), dependency_order holds
\* every concept name exactly once and every concept comes strictly after
\* each of its dependencies.
C3_TopologicalOrder ==
    (Validated /\ pending = {}) =>
        /\ \A n \in ConceptNames : Cardinality(Places(n)) = 1
        /\ Range(dependency_order) = ConceptNames
        /\ \A k \in 1..Len(concepts) :
              \A d \in Range(concepts[k].dependencies) :
                  \A p \in Places(concepts[k].concept) :
                      \A q \in Places(d) : q < p

\* --------------------------------------------------------------------- C4
\* C4: validate leaves concepts pending, and reports a circular dependency,
\* exactly when the pruned dependency relation has a directed cycle; there is
\* at most one such diagnostic, and it carries the size and the members of the
\* pending set.
C4_CycleDetected ==
    Validated =>
        /\ (pending # {}) <=> HasCycle
        /\ Diagnostics(errors, "circular") =
              IF HasCycle THEN << <<"circular", Cardinality(pending), pending>> >>
              ELSE <<>>

\* --------------------------------------------------------------------- C5
\* The solve pass has completed.
Solved == pc = "done"

\* C5: on a validated acyclic graph, after the solve pass the closure memoized
\* for each concept is exactly the set of names of the concepts reachable
\* from it along one or more dependency edges, and does not hold the concept's
\* own name.
C5_ClosureIsReachability ==
    (Solved /\ ~HasCycle) =>
        \A k \in 1..Len(concepts) :
            /\ concepts[k].concept \in DOMAIN all_deps
            /\ all_deps[concepts[k].concept] = { concepts[j].concept : j \in Reach(k) }
            /\ concepts[k].concept \notin all_deps[concepts[k].concept]

\* --------------------------------------------------------------------- C6
RECURSIVE PrimaryWeight(_)
\* The primary-mode weight of a set of concepts (positions), each counted once.
PrimaryWeight(S) ==
    IF S = {} THEN 0
    ELSE LET j == CHOOSE j \in S : TRUE
         IN  concepts[j].modes[1].weight + PrimaryWeight(S \ {j})

\* C6: after solve on a validated acyclic graph, each concept's primary-mode
\* earliest_start is the sum of the primary-mode weights of the concepts in
\* its transitive dependency closure, each counted once, itself excluded.
C6_EarliestStartIsClosureWeight ==
    (Solved /\ ~HasCycle) =>
        \A k \in 1..Len(concepts) :
            concepts[k].modes[1].earliest_start = PrimaryWeight(Reach(k))

\* --------------------------------------------------------------------- C7
\* C7: the closure solver is guarded against cyclic graphs: the recursion
\* never re-enters a call that is still in progress and never exhausts the
\* stack, so that add* -> build -> solve terminates on every input.
C7_SolverGuarded ==
    /\ pc # "overflow"
    /\ \A p, q \in 1..Len(stack) : p # q => stack[p].n # stack[q].n

\* --------------------------------------------------------------------- C8
\* solve_total_weights has run.
Aggregated == pc \in {"closure", "done", "overflow"}

RECURSIVE SumOf(_, _)
\* The sum of f over the set S.
SumOf(f, S) ==
    IF S = {} THEN 0
    ELSE LET x == CHOOSE x \in S : TRUE IN f[x] + SumOf(f, S \ {x})

\* The weight columns of record q, absent values read as 0.
RecordWeights(q) ==
    << UnwrapOr(records[q].lecture_weight, 0),
       UnwrapOr(records[q].lab_weight, 0),
       UnwrapOr(records[q].hw_weight, 0) >>

\* C8: after aggregation, for each mode the total is the sum of that mode's
\* weight over the stored concepts, which is the sum of that weight column
\* over the records that were not rejected, whatever validate reported.
C8_TotalWeights ==
    Aggregated =>
        \A m \in 1..3 :
            /\ total_weights[m] =
                  SumOf([k \in 1..Len(concepts) |-> concepts[k].modes[m].weight],
                        1..Len(concepts))
            /\ total_weights[m] =
                  SumOf([q \in 1..Len(records) |-> RecordWeights(q)[m]], Range(origin))

\* C8 witness: totals were produced although validate reported a redundant
\* concept, a dangling dependency and a circular dependency.
C8_Witness ==
    /\ Aggregated
    /\ Diagnostics(errors, "redundant") # <<>>
    /\ Diagnostics(errors, "dangling") # <<>>
    /\ Diagnostics(errors, "circular") # <<>>
    /\ total_weights[1] > 0
    /\ total_weights[1] # total_weights[2]

\* --------------------------------------------------------------------- C9
\* The records add rejected.
Rejected == (1..Len(records)) \ Range(origin)

\* The dependency names concept k had before validate that validate dropped.
Dropped(k) ==
    SelectSeq(ParseDependencies(records[origin[k]].dependencies),
              LAMBDA d : d \notin ConceptNames)

\* The names of the dangling-dependency diagnostics about concept k.
DanglingNames(k) ==
    LET es == SelectSeq(Diagnostics(errors, "dangling"),
                        LAMBDA e : e[3] = concepts[k].concept /\ e[4] = concepts[k].line)
    IN  [p \in 1..Len(es) |-> es[p][2]]

\* C9: after add* and validate every record was processed and the buffer holds
\* one redundant-concept bullet per rejected record, one dangling-dependency
\* bullet per dropped dependency occurrence, one circular-dependency bullet
\* exactly when concepts remain pending, and nothing else; errs() is None
\* exactly when none of the three occurred.
C9_AllDiagnosticsAccumulate ==
    Validated =>
        LET red  == Diagnostics(errors, "redundant")
            dang == Diagnostics(errors, "dangling")
            circ == Diagnostics(errors, "circular")
        IN  /\ nconcepts = Len(records)
            /\ Len(concepts) + Cardinality(Rejected) = Len(records)
            /\ Len(red) = Cardinality(Rejected)
            /\ { red[p][3] : p \in 1..Len(red) } = Rejected
            /\ \A k \in 1..Len(concepts) :
                  /\ DanglingNames(k) = Dropped(k)
                  /\ Len(Dropped(k)) + Len(concepts[k].dependencies)
                        = Len(ParseDependencies(records[origin[k]].dependencies))
            /\ Len(dang) = SumOf([k \in 1..Len(concepts) |-> Len(Dropped(k))],
                                 1..Len(concepts))
            /\ Len(circ) = IF pending # {} THEN 1 ELSE 0
            /\ Len(errors) = Len(red) + Len(dang) + Len(circ)
            /\ (Errs = None) <=> (Rejected = {} /\ dang = <<>> /\ pending = {})

\* C9 witness: all three conditions occurred in one run, two dependencies of
\* one concept were dropped, and validate ran to its end.
C9_Witness ==
    /\ Validated
    /\ Diagnostics(errors, "redundant") # <<>>
    /\ Len(Diagnostics(errors, "dangling")) >= 2
    /\ Diagnostics(errors, "circular") # <<>>
    /\ Errs # None

\* -------------------------------------------------------------------- C10
\* The step is an add call that rejected its record as a duplicate.
AddRejects ==
    /\ pc = "ingest"
    /\ nconcepts' = nconcepts + 1
    /\ Len(errors') = Len(errors) + 1
    /\ errors'[Len(errors')][1] = "redundant"

\* C10: an add call that rejects its record as a duplicate leaves the concept
\* storage and the lookup as they were; the record counter and the
\* diagnostic buffer are what changes.
C10_RejectedAddChangesNothing ==
    [][AddRejects =>
          /\ concepts' = concepts
          /\ lookup' = lookup
          /\ UNCHANGED <<dependency_order, total_weights>>]_vars

\* C10 witness: a record has been rejected as a duplicate while concepts with
\* dependencies are stored.
C10_Witness ==
    /\ pc = "ingest"
    /\ Diagnostics(errors, "redundant") # <<>>
    /\ \E k \in 1..Len(concepts) : concepts[k].dependencies # <<>>

\* -------------------------------------------------------------------- C11
\* C11 as stated: whenever validate reports a circular dependency, no
\* topological order is produced: dependency_order is empty after validate.
C11_NoOrderWhenCyclic ==
    (Validated /\ pending # {}) => dependency_order = <<>>

\* C11 as amended: whenever validate reports a circular dependency, no total
\* order is produced: dependency_order holds, once each, exactly the names
\* that are not left pending, so it misses every stuck name, and it is empty
\* exactly when every concept name is stuck.
C11_PartialOrderWhenCyclic ==
    (Validated /\ pending # {}) =>
        /\ Range(dependency_order) = ConceptNames \ pending
        /\ Len(dependency_order) = Cardinality(ConceptNames \ pending)
        /\ Len(dependency_order) < Cardinality(ConceptNames)
        /\ (dependency_order = <<>>) <=> (pending = ConceptNames)

\* C11 witness: a circular dependency was reported and dependency_order holds
\* the concepts outside the cycle.
C11_Witness ==
    /\ Validated
    /\ Diagnostics(errors, "circular") # <<>>
    /\ dependency_order # <<>>

\* -------------------------------------------------------------------- C12
\* C12: every stored concept's line is the 1-based number of its record; in a
\* redundant-concept diagnostic "in record N, redundant with record M", M is
\* the record number of the stored concept and M < N; in a dangling-dependency
\* diagnostic the record number is that of the record which introduced the
\* concept.
C12_LineIsRecordNumber ==
    /\ \A k \in 1..Len(concepts) : concepts[k].line = origin[k]
    /\ \A p \in 1..Len(errors) :
          /\ errors[p][1] = "redundant" =>
                /\ errors[p][4] < errors[p][3]
                /\ \E k \in 1..Len(concepts) :
                      concepts[k].concept = Trim(errors[p][2]) /\ origin[k] = errors[p][4]
          /\ errors[p][1] = "dangling" =>
                \E k \in 1..Len(concepts) :
                    concepts[k].concept = errors[p][3] /\ origin[k] = errors[p][4]

\* -------------------------------------------------------------------- C13
\* C13: after add no dependency list holds an empty name (tokens that are
\* empty once trimmed are discarded), so no dangling-dependency diagnostic is
\* ever about an empty name.
C13_NoEmptyDependency ==
    /\ \A k \in 1..Len(concepts) : <<>> \notin Range(concepts[k].dependencies)
    /\ \A p \in 1..Len(errors) : errors[p][1] = "dangling" => errors[p][2] # <<>>

\* -------------------------------------------------------------------- C15
\* solve_dependency_transitive_closure is about to be invoked on name n: by
\* solve for concepts[ci], or by the frame on top of the stack for its next
\* dependency.
Invokes(n) ==
    /\ pc = "closure"
    /\ IF stack = <<>>
       THEN ci <= Len(concepts) /\ n = concepts[ci].concept
       ELSE Top.k <= Len(Top.ds) /\ n = Top.ds[Top.k]

\* C15: an invocation on a name that has a memo entry returns at once: it
\* opens no frame and leaves the memo table as it is; a memo entry is written
\* once, for a name that had none, and is never modified afterwards.
C15_MemoizationIdempotent ==
    /\ [](\A p \in 1..Len(stack) : stack[p].n \notin DOMAIN all_deps)
    /\ [][/\ \A n \in DOMAIN all_deps :
                /\ n \in DOMAIN all_deps' /\ all_deps'[n] = all_deps[n]
                /\ Invokes(n) => (all_deps' = all_deps /\ Len(stack') = Len(stack))
          /\ Cardinality(DOMAIN all_deps') <= Cardinality(DOMAIN all_deps) + 1
         ]_vars

\* C15 witness: a name with a non-empty memoized closure is invoked again.
C15_Witness ==
    \E n \in DOMAIN all_deps : Invokes(n) /\ all_deps[n] # {}

\* -------------------------------------------------------------------- C16
\* C16: the pruning step of validate replaces each dependency list by the
\* subsequence of its names that are keys of the lookup, in the original
\* order with repetitions kept, and changes nothing else of the concepts;
\* no step of validate changes the number of concepts, their names and
\* positions, or the lookup.
C16_PruningRemovesOnlyDangling ==
    [][(pc \in {"ingest", "peel", "report"} /\ pc' # "ingest") =>
          /\ lookup' = lookup
          /\ Len(concepts') = Len(concepts)
          /\ \A k \in 1..Len(concepts) :
                /\ concepts'[k].dependencies =
                      IF pc = "ingest"
                      THEN SelectSeq(concepts[k].dependencies,
                                     LAMBDA d : d \in DOMAIN lookup)
                      ELSE concepts[k].dependencies
                /\ concepts'[k] = [concepts[k] EXCEPT
                                     !.dependencies = concepts'[k].dependencies]
      ]_vars

\* C16 witness: validate pruned a list that named a dangling name and named
\* a resolved name twice, and kept both occurrences.
C16_Witness ==
    /\ Validated
    /\ \E k \in 1..Len(concepts) :
          /\ Dropped(k) # <<>>
          /\ \E p, q \in 1..Len(concepts[k].dependencies) :
                p # q /\ concepts[k].dependencies[p] = concepts[k].dependencies[q]

\* -------------------------------------------------------------------- C17
\* Concept k lies on a dependency cycle or transitively depends on a concept
\* that lies on one.
Stuck(k) == k \in Reach(k) \/ \E j \in Reach(k) : j \in Reach(j)

\* C17: when validate fails, the pending concepts are exactly those that lie
\* on a cycle or transitively depend on one; every other concept is in
\* dependency_order and is not reported.
C17_StuckSet ==
    (Validated /\ pending # {}) =>
        \A k \in 1..Len(concepts) :
            /\ (concepts[k].concept \in pending) <=> Stuck(k)
            /\ ~Stuck(k) => concepts[k].concept \in Range(dependency_order)

\* -------------------------------------------------------------------- C18
\* Every concept's resolved dependencies are stored before it.
StoredAfterDependencies ==
    \A k \in 1..Len(concepts) :
        \A d \in Range(concepts[k].dependencies) :
            \E j \in 1..(k - 1) : concepts[j].concept = d

\* C18: if every concept's resolved dependencies are stored before it, the
\* peeling loop completes in a single pass and dependency_order is the
\* storage order.
C18_SinglePass ==
    (Validated /\ StoredAfterDependencies) =>
        /\ passes = 1
        /\ dependency_order = [k \in 1..Len(concepts) |-> concepts[k].concept]

\* -------------------------------------------------------------------- C19
\* The greater of two numbers.
Max(a, b) == IF a >= b THEN a ELSE b

\* C19: every pass of the peeling loop that is followed by another pass
\* removed a name from pending, the loop runs at most max(1, number of stored
\* concepts) passes, and validate has then finished.
C19_PassesBounded ==
    /\ [](passes <= Max(1, Len(concepts)))
    /\ [](pc = "peel" => passes < Max(1, Len(concepts)))
    /\ [][(pc = "peel" /\ passes' = passes + 1 /\ pc' = "peel") =>
            /\ shrunk
            /\ Cardinality(pending) <= Len(concepts) - passes' ]_vars

\* C19 witness: validate took as many passes as there are concepts, three.
C19_Witness ==
    /\ Validated
    /\ Len(concepts) = 3
    /\ passes = 3

\* -------------------------------------------------------------------- C20
\* C20: at every step of the peeling loop and after it, dependency_order
\* holds no name twice, its names and pending are disjoint and together are
\* all concept names, and every concept in dependency_order has all of its
\* resolved dependencies at earlier positions.
C20_PeelInvariant ==
    (pc = "peel" \/ pc = "report" \/ Validated) =>
        /\ \A p, q \in 1..Len(dependency_order) :
              p # q => dependency_order[p] # dependency_order[q]
        /\ Range(dependency_order) \cap pending = {}
        /\ Range(dependency_order) \cup pending = ConceptNames
        /\ \A k \in 1..Len(concepts) :
              \A p \in Places(concepts[k].concept) :
                  \A d \in Range(concepts[k].dependencies) :
                      \E q \in 1..(p - 1) : dependency_order[q] = d

\* -------------------------------------------------------------------- C14
\* The capacity of the palette the claim names.
PaletteCapacity == 15

\* The distinct categories of the stored concepts, read from their records:
\* an absent or blank category is the empty ("uncategorized") category.
Categories == { Trim(UnwrapOr(records[origin[k]].category, <<>>)) : k \in 1..Len(origin) }

\* C14: rendering aborts exactly when the stored concepts have more than 15
\* distinct categories, the empty category counted as one; otherwise it
\* completes with one colour per category, no colour used twice; the abort
\* appends no diagnostic.
C14_PaletteAbort ==
    /\ pc = "panic" => Cardinality(Categories) > PaletteCapacity
    /\ pc = "done" =>
          /\ Cardinality(Categories) <= PaletteCapacity
          /\ DOMAIN colors = Categories
          /\ \A x, y \in Categories : x # y => colors[x] # colors[y]
          /\ \A x \in Categories : \E p \in 1..Len(colormap) : colors[x] = colormap[p]
    /\ pc = "graph" =>
          /\ Cardinality(DOMAIN colors) <= PaletteCapacity
          /\ DOMAIN colors \subseteq Categories
    /\ errors = <<>>

\* C14 witness: rendering completed with exactly 15 categories, the empty
\* one among them, shared by several concepts.
C14_Witness ==
    /\ pc = "done"
    /\ Cardinality(Categories) = PaletteCapacity
    /\ <<>> \in Categories
    /\ Len(concepts) > PaletteCapacity

\* C14 witness of the abort: the sixteenth category reached the palette.
C14_AbortReached ==
    /\ pc = "panic"
    /\ Cardinality(Categories) = PaletteCapacity + 1

\* --------------------------------------------------------------- lemmas
\* What the order, cycle, closure and earliest-start properties rest on: each
\* holds in every state in which the stored names are distinct.
DistinctNames_TopologicalOrder == DistinctNames => C3_TopologicalOrder
DistinctNames_CycleDetected == DistinctNames => C4_CycleDetected
DistinctNames_ClosureIsReachability == DistinctNames => C5_ClosureIsReachability
DistinctNames_EarliestStart == DistinctNames => C6_EarliestStartIsClosureWeight
\* With distinct names the recursion fails exactly on the cyclic graphs.
DistinctNames_OverflowIffCycle ==
    DistinctNames =>
        /\ ~HasCycle => C7_SolverGuarded
        /\ HasCycle => ~Solved
DistinctNames_StuckSet == DistinctNames => C17_StuckSet
DistinctNames_SinglePass == DistinctNames => C18_SinglePass
DistinctNames_PeelInvariant == DistinctNames => C20_PeelInvariant

====
